---- MODULE Spec2Model ----
(***************************************************************************)
(* A model of src/src/json_parser.rs: the nom-based parser of a restricted *)
(* JSON grammar and its entry point JsonValue::from_str.                   *)
(*                                                                         *)
(* Text is a sequence of Unicode scalar values (what s.chars() yields); a  *)
(* parser takes the whole text and a 1-based position and returns either   *)
(* the position after what it consumed together with its output, or an     *)
(* error of nom's kind Error (recoverable) or Failure (committed).         *)
(***************************************************************************)
EXTENDS Integers, Sequences, FiniteSets, TLC

\* input: the argument s; pc: the place in from_str; ires: what
\* parse_json_str returned; result: what from_str returns. family and doc
\* record how the input was written (they are never read by the actions).
VARIABLES input, pc, ires, result, family, doc

vars == <<input, pc, ires, result, family, doc>>

RECURSIVE ParseJsonValue(_, _)
RECURSIVE ParseJsonRoot(_, _)
RECURSIVE ParseJsonArray(_, _)
RECURSIVE ParseJsonMap(_, _)
RECURSIVE ParseElem(_, _, _, _)
RECURSIVE ListLoop(_, _, _, _, _, _)
RECURSIVE SeparatedList0(_, _, _, _)
RECURSIVE DigitsValue(_, _, _)
RECURSIVE Normalize(_, _)
RECURSIVE CollectFrom(_, _, _)
RECURSIVE GrowTrees(_, _, _, _)
RECURSIVE Str(_)
RECURSIVE PairSeqs(_)
RECURSIVE Render(_, _)
RECURSIVE RenderItems(_, _, _)
RECURSIVE Denote(_)
RECURSIVE Depth(_)

(***************************************************************************)
(* Characters.                                                             *)
(***************************************************************************)

\* The scalar value of a character, written as a one-character string (the
\* two non-ASCII characters are written by their code point names).
Ord(c) ==
    CASE c = " " -> 32 [] c = "\t" -> 9 [] c = "\r" -> 13 [] c = "\n" -> 10
      [] c = "\"" -> 34 [] c = "+" -> 43 [] c = "," -> 44 [] c = "-" -> 45
      [] c = "." -> 46 [] c = "0" -> 48 [] c = "1" -> 49 [] c = "2" -> 50
      [] c = "3" -> 51 [] c = "5" -> 53 [] c = ":" -> 58 [] c = "?" -> 63
      [] c = "E" -> 69 [] c = "[" -> 91 [] c = "\\" -> 92 [] c = "]" -> 93
      [] c = "a" -> 97 [] c = "b" -> 98 [] c = "e" -> 101 [] c = "f" -> 102
      [] c = "k" -> 107 [] c = "l" -> 108 [] c = "n" -> 110 [] c = "o" -> 111
      [] c = "r" -> 114 [] c = "s" -> 115 [] c = "t" -> 116 [] c = "u" -> 117
      [] c = "v" -> 118 [] c = "w" -> 119 [] c = "x" -> 120 [] c = "y" -> 121
      [] c = "{" -> 123 [] c = "}" -> 125
      [] c = "U+00E9" -> 233 [] c = "U+4E2D" -> 20013

\* A text from its characters.
Str(t) == IF t = <<>> THEN <<>> ELSE <<Ord(Head(t))>> \o Str(Tail(t))

\* The characters and keywords the parser names.
ChQuote == Ord("\"")
ChComma == Ord(",")
ChColon == Ord(":")
ChLBracket == Ord("[")
ChRBracket == Ord("]")
ChLBrace == Ord("{")
ChRBrace == Ord("}")
ChDot == Ord(".")
ChPlus == Ord("+")
ChMinus == Ord("-")
ChLowerE == Ord("e")
ChUpperE == Ord("E")
SplitChars == { Ord(" "), Ord("\t"), Ord("\r"), Ord("\n") }
TNull == Str(<<"n", "u", "l", "l">>)
TTrue == Str(<<"t", "r", "u", "e">>)
TFalse == Str(<<"f", "a", "l", "s", "e">>)

\* The character at position i, or NoChar past the end of the text.
NoChar == 0 - 1
At(s, i) == IF i >= 1 /\ i <= Len(s) THEN s[i] ELSE NoChar

\* A variant of IsAscii: the test of a byte, not of an ASCII character.
IsAsciiByte(c) == c >= 0 /\ c <= 255

\* char::is_ascii
IsAscii(c) == c >= 0 /\ c <= 127
\* The characters nom's AsChar::is_dec_digit and is_alphanum accept.
Digits == 48..57
AlphaNums == Digits \cup (65..90) \cup (97..122)

(***************************************************************************)
(* JsonValue.                                                              *)
(***************************************************************************)
JNull == <<"Null">>
JBoolean(b) == <<"Boolean", b>>
JNumberF64(x) == <<"NumberF64", x>>
JString(str) == <<"String", str>>
JArray(vec) == <<"Array", vec>>
JMap(m) == <<"Map", m>>

(***************************************************************************)
(* IResult: Ok((rest, output)) and Err(Err::Error | Err::Failure).  log is  *)
(* the record of the rule applications made while computing the result.    *)
(***************************************************************************)
POk(pos, val, log) == [ok |-> TRUE, pos |-> pos, val |-> val, log |-> log]
PErr(kind, log) == [ok |-> FALSE, kind |-> kind, log |-> log]

\* The end of the longest run of characters of the set chars that starts at i.
RunEnd(chars, s, i) ==
    CHOOSE j \in i..(Len(s) + 1) :
        /\ j = Len(s) + 1 \/ s[j] \notin chars
        /\ \A k \in i..(j - 1) : s[k] \in chars

\* take_while(|c| " \t\r\n".contains(c)): never fails.
Split(s, i) == POk(RunEnd(SplitChars, s, i), <<>>, <<>>)

\* character::complete::char
Char(c, s, i) ==
    IF At(s, i) = c THEN POk(i + 1, c, <<>>) ELSE PErr("Error", <<>>)

\* bytes::complete::tag
Tag(t, s, i) ==
    IF /\ i + Len(t) - 1 <= Len(s)
       /\ \A k \in 1..Len(t) : s[i + k - 1] = t[k]
    THEN POk(i + Len(t), t, <<>>)
    ELSE PErr("Error", <<>>)

\* A variant of Alphanumeric1: alphanumeric0, which matches the empty run.
Alphanumeric0(s, i) ==
    LET j == RunEnd(AlphaNums, s, i)
    IN  POk(j, SubSeq(s, i, j - 1), <<>>)

\* character::complete::alphanumeric1
Alphanumeric1(s, i) ==
    LET j == RunEnd(AlphaNums, s, i)
    IN  IF j > i THEN POk(j, SubSeq(s, i, j - 1), <<>>) ELSE PErr("Error", <<>>)

(***************************************************************************)
(* Combinators, applied to results: an argument that stands for a later    *)
(* parser of a sequence or alternative is the result of that parser at the *)
(* position it is run from, and is looked at only when nom runs it.        *)
(***************************************************************************)

\* sequence::terminated(first, second), first having succeeded: the output
\* of first, ending where second ended.
Terminated(first, second) ==
    IF ~second.ok THEN PErr(second.kind, first.log)
    ELSE POk(second.pos, first.val, first.log)

\* branch::alt((first, second)): second is tried when first ended in
\* Err::Error; an Err::Failure of first ends the alt at once.
Alt(first, second) ==
    IF first.ok \/ first.kind = "Failure" THEN first
    ELSE [second EXCEPT !.log = first.log \o second.log]

\* combinator::value(v, parser)
Value(v, r) == IF r.ok THEN [r EXCEPT !.val = v] ELSE r

\* combinator::map(parser, JsonValue::<variant>)
MapVariant(variant, r) ==
    IF r.ok
    THEN [r EXCEPT !.val =
            CASE variant = "Boolean" -> JBoolean(r.val)
              [] variant = "NumberF64" -> JNumberF64(r.val)
              [] variant = "String" -> JString(r.val)
              [] variant = "Array" -> JArray(r.val)
              [] variant = "Map" -> JMap(r.val)]
    ELSE r

\* preceded(char_('"'), terminated(alphanumeric1, char_('"')))
ParseString(s, i) ==
    LET q == Char(ChQuote, s, i)
    IN  IF ~q.ok THEN q
        ELSE LET a == Alphanumeric1(s, q.pos)
             IN  IF ~a.ok THEN a ELSE Terminated(a, Char(ChQuote, s, a.pos))

(***************************************************************************)
(* number::complete::double: nom's recognize_float followed by the         *)
(* conversion of the recognised literal to f64.                            *)
(***************************************************************************)

\* The number written by the decimal digits s[a..b-1], most significant first.
DigitsValue(s, a, b) ==
    IF b <= a THEN 0 ELSE 10 * DigitsValue(s, a, b - 1) + (s[b - 1] - 48)

\* mant * 10^exp without trailing zeros in mant; zero is <<0, 0>>.
Normalize(mant, exp) ==
    IF mant = 0 THEN <<0, 0>>
    ELSE IF mant % 10 = 0 THEN Normalize(mant \div 10, exp + 1)
    ELSE <<mant, exp>>

\* The value of a literal: its sign and its exact decimal value as normalised
\* mantissa and exponent. Literals of equal value convert to the same f64;
\* rounding to 53 bits and overflow to infinity are outside the literals used.
F64(neg, intPart, fracPart, fracLen, exp) ==
    LET scale == IF fracLen = 0 THEN 1 ELSE 10 ^ fracLen
        n == Normalize(intPart * scale + fracPart, exp - fracLen)
    IN  [neg |-> neg, mant |-> n[1], exp |-> n[2]]

IsSign(c) == c \in { ChPlus, ChMinus }

\* The exponent of a literal whose mantissa ends before fracEnd:
\* opt(tuple((alt((char('e'), char('E'))), opt(sign), cut(digit1))))
Exponent(s, neg, intPart, fracPart, fracLen, fracEnd) ==
    LET hasExp == At(s, fracEnd) \in { ChLowerE, ChUpperE }
        expStart == IF IsSign(At(s, fracEnd + 1)) THEN fracEnd + 2 ELSE fracEnd + 1
        expEnd == RunEnd(Digits, s, expStart)
        expAbs == DigitsValue(s, expStart, expEnd)
    IN  IF ~hasExp THEN POk(fracEnd, F64(neg, intPart, fracPart, fracLen, 0), <<>>)
        ELSE IF expEnd = expStart THEN PErr("Failure", <<>>)
        ELSE POk(expEnd,
                 F64(neg, intPart, fracPart, fracLen,
                     IF At(s, fracEnd + 1) = ChMinus THEN 0 - expAbs ELSE expAbs),
                 <<>>)

\* The fraction of a literal whose integer digits are s[intStart..intEnd-1]:
\* digit1, opt(pair(char('.'), opt(digit1)))  |  char('.'), digit1
Fraction(s, neg, intStart, intEnd) ==
    LET hasDot == At(s, intEnd) = ChDot
        fracStart == IF hasDot THEN intEnd + 1 ELSE intEnd
        fracEnd == IF hasDot THEN RunEnd(Digits, s, fracStart) ELSE intEnd
    IN  IF intEnd > intStart \/ (hasDot /\ fracEnd > fracStart)
        THEN Exponent(s, neg, DigitsValue(s, intStart, intEnd),
                      DigitsValue(s, fracStart, fracEnd), fracEnd - fracStart,
                      fracEnd)
        ELSE PErr("Error", <<>>)

\* The integer digits of a literal that starts at intStart, after its sign.
Mantissa(s, neg, intStart) ==
    Fraction(s, neg, intStart, RunEnd(Digits, s, intStart))

ParseDouble(s, i) ==
    Mantissa(s, At(s, i) = ChMinus, IF IsSign(At(s, i)) THEN i + 1 ELSE i)

\* alt((value(true, tag("true")), value(false, tag("false"))))
ParseBoolean(s, i) ==
    Alt(Value(TRUE, Tag(TTrue, s, i)), Value(FALSE, Tag(TFalse, s, i)))

\* preceded(split, char_(c))
SplitChar(c, s, i) == Char(c, s, Split(s, i).pos)

(***************************************************************************)
(* The record of a run. A rule event is one application of a parse_json_*  *)
(* function at position at, ending at position to when it succeeded; a     *)
(* call event is a call of parse_json_value (at position to) made by the    *)
(* array or map whose opening bracket is at position at; an iter event is   *)
(* one completed round of the list loop, separator then element.           *)
(***************************************************************************)
Event(ev, rule, at, to, ok) ==
    [ev |-> ev, rule |-> rule, at |-> at, to |-> to, ok |-> ok]

\* The result r of applying rule at position i, with the application logged.
Logged(rule, i, r) ==
    [r EXCEPT !.log = Append(r.log,
        Event("rule", rule, i, IF r.ok THEN r.pos ELSE i, r.ok))]

\* The call of parse_json_value at position i by the array or map whose
\* bracket is at open, followed by the record log of what the call did.
Called(open, i, log) == <<Event("call", "value", open, i, TRUE)>> \o log

(***************************************************************************)
(* multi::separated_list0(preceded(split, char_(',')), elem), where elem is *)
(* parse_json_value (kind "value") or the map's separated_pair (kind        *)
(* "pair"). open is the position of the bracket of the enclosing rule.     *)
(***************************************************************************)

\* A variant of Insert: the entry of a key already present is kept.
InsertIfAbsent(m, k, v) ==
    [x \in (DOMAIN m) \cup {k} |-> IF x \in DOMAIN m THEN m[x] ELSE v]

\* HashMap::insert
Insert(m, k, v) == [x \in (DOMAIN m) \cup {k} |-> IF x = k THEN v ELSE m[x]]

\* Iterator::collect into a HashMap: the pairs inserted in order from index k.
CollectFrom(vec, k, m) ==
    IF k > Len(vec) THEN m
    ELSE CollectFrom(vec, k + 1, Insert(m, vec[k][1], vec[k][2]))

Collect(vec) == CollectFrom(vec, 1, <<>>)

\* map(separated_list0(..), |tuple_vec| tuple_vec.into_iter()...collect())
Collected(l) == IF l.ok THEN [l EXCEPT !.val = Collect(l.val)] ELSE l

\* separated_pair(key, colon, value), key and colon having succeeded and v
\* being the result of parse_json_value at position at.
PairValue(open, key, at, v) ==
    IF ~v.ok THEN PErr(v.kind, Called(open, at, v.log))
    ELSE POk(v.pos, <<key.val, v.val>>, Called(open, at, v.log))

\* A variant of PairColon: the colon must follow the key at once.
PairColonTight(s, open, key) ==
    IF ~key.ok THEN key
    ELSE LET colon == Char(ChColon, s, key.pos)
         IN  IF ~colon.ok THEN colon
             ELSE PairValue(open, key, colon.pos, ParseJsonValue(s, colon.pos))

\* separated_pair(.., preceded(split, char_(':')), parse_json_value) after
\* its first parser ended with the result key.
PairColon(s, open, key) ==
    IF ~key.ok THEN key
    ELSE LET colon == SplitChar(ChColon, s, key.pos)
         IN  IF ~colon.ok THEN colon
             ELSE PairValue(open, key, colon.pos, ParseJsonValue(s, colon.pos))

\* separated_pair(preceded(split, parse_string), preceded(split, char_(':')),
\*                parse_json_value)
ParsePair(s, open, i) == PairColon(s, open, ParseString(s, Split(s, i).pos))

\* A rule applied twice over.
Twice(v) == [v EXCEPT !.log = v.log \o v.log]

\* A variant of ParseElem: an array element is parsed, given up and parsed
\* again (as when a rule is written as an alternative of two sequences that
\* begin with the same element).
ParseElemTwice(kind, s, open, i) ==
    IF kind = "pair" THEN ParsePair(s, open, i) ELSE Twice(ParseJsonValue(s, i))

\* The element parser of the list of an array or of a map.
ParseElem(kind, s, open, i) ==
    IF kind = "pair" THEN ParsePair(s, open, i) ELSE ParseJsonValue(s, i)

\* The record of the element parser applied at position at with result e: an
\* array's element is a call of parse_json_value, a map's pair logs its own.
ElemLog(kind, open, at, e) ==
    IF kind = "value" THEN Called(open, at, e.log) ELSE e.log

\* A variant of ListNext: a separator with no element after it is consumed
\* and the list ends there.
ListNextLax(kind, s, open, i, res, log, at, e) ==
    IF e.ok
    THEN ListLoop(kind, s, open, e.pos, Append(res, e.val),
                  log \o ElemLog(kind, open, at, e)
                      \o <<Event("iter", kind, i, e.pos, TRUE)>>)
    ELSE IF e.kind = "Error" THEN POk(at, res, log \o ElemLog(kind, open, at, e))
    ELSE PErr(e.kind, log \o ElemLog(kind, open, at, e))

\* One round of the loop after its separator matched, e being the result of
\* the element parser at position at: an Err::Error of the element ends the
\* list before the separator, at i.
ListNext(kind, s, open, i, res, log, at, e) ==
    IF e.ok
    THEN ListLoop(kind, s, open, e.pos, Append(res, e.val),
                  log \o ElemLog(kind, open, at, e)
                      \o <<Event("iter", kind, i, e.pos, TRUE)>>)
    ELSE IF e.kind = "Error" THEN POk(i, res, log \o ElemLog(kind, open, at, e))
    ELSE PErr(e.kind, log \o ElemLog(kind, open, at, e))

\* One round of the loop, sep being the result of the separator at i.
ListSep(kind, s, open, i, res, log, sep) ==
    IF ~sep.ok THEN POk(i, res, log)
    ELSE IF sep.pos = i THEN PErr("Error", log)
    ELSE ListNext(kind, s, open, i, res, log, sep.pos,
                  ParseElem(kind, s, open, sep.pos))

\* The loop of separated_list0 after the first element: res holds the
\* elements so far and i the position after the last of them.
ListLoop(kind, s, open, i, res, log) ==
    ListSep(kind, s, open, i, res, log, SplitChar(ChComma, s, i))

\* A variant of ListFirst: separated_list1, which needs an element.
ListFirst1(kind, s, open, i, e) ==
    IF e.ok
    THEN ListLoop(kind, s, open, e.pos, <<e.val>>, ElemLog(kind, open, i, e))
    ELSE PErr(e.kind, ElemLog(kind, open, i, e))

\* separated_list0 after its first application of the element parser, with
\* the result e: an Err::Error gives the empty list.
ListFirst(kind, s, open, i, e) ==
    IF e.ok
    THEN ListLoop(kind, s, open, e.pos, <<e.val>>, ElemLog(kind, open, i, e))
    ELSE IF e.kind = "Error" THEN POk(i, <<>>, ElemLog(kind, open, i, e))
    ELSE PErr(e.kind, ElemLog(kind, open, i, e))

SeparatedList0(kind, s, open, i) ==
    ListFirst(kind, s, open, i, ParseElem(kind, s, open, i))

(***************************************************************************)
(* The grammar rules.                                                      *)
(***************************************************************************)

\* preceded(char_(..), terminated(list, preceded(split, char_(c)))) applied at
\* i as the rule "array" or "map", open being the result of the opening char
\* and l that of the list run after it; the pairs of a map are collected.
ListClose(rule, c, s, i, open, l) ==
    IF ~open.ok THEN Logged(rule, i, open)
    ELSE IF ~l.ok THEN Logged(rule, i, l)
    ELSE Logged(rule, i,
             Terminated(IF rule = "map" THEN Collected(l) ELSE l,
                        SplitChar(c, s, l.pos)))

\* parse_json_array; the list starts after the one character '[' consumed.
ParseJsonArray(s, i) ==
    ListClose("array", ChRBracket, s, i, Char(ChLBracket, s, i),
              SeparatedList0("value", s, i, i + 1))

\* parse_json_map
ParseJsonMap(s, i) ==
    ListClose("map", ChRBrace, s, i, Char(ChLBrace, s, i),
              SeparatedList0("pair", s, i, i + 1))

\* A variant of RootAlt: the root also takes a boolean.
RootAltOrBoolean(s, i, m, a) ==
    IF m.ok \/ m.kind = "Failure" THEN Logged("root", i, MapVariant("Map", m))
    ELSE IF a.ok \/ a.kind = "Failure"
    THEN Logged("root", i, Alt(m, MapVariant("Array", a)))
    ELSE Logged("root", i,
             Alt(m, Alt(a, Alt(Value(JNull, Tag(TNull, s, i)),
                               MapVariant("Boolean", ParseBoolean(s, i))))))

\* alt((map(parse_json_map, Map), map(parse_json_array, Array), null)) applied
\* at i, m and a being the results of parse_json_map and parse_json_array.
RootAlt(s, i, m, a) ==
    IF m.ok \/ m.kind = "Failure" THEN Logged("root", i, MapVariant("Map", m))
    ELSE IF a.ok \/ a.kind = "Failure"
    THEN Logged("root", i, Alt(m, MapVariant("Array", a)))
    ELSE Logged("root", i, Alt(m, Alt(a, Value(JNull, Tag(TNull, s, i)))))

\* parse_json_root
ParseJsonRoot(s, i) == RootAlt(s, i, ParseJsonMap(s, i), ParseJsonArray(s, i))

\* alt((root, boolean, double, string)) at p as the rule applied at i, r
\* being the result of parse_json_root.
ValueAlt(s, i, p, r) ==
    IF r.ok \/ r.kind = "Failure" THEN Logged("value", i, r)
    ELSE Logged("value", i,
             Alt(r, Alt(MapVariant("Boolean", ParseBoolean(s, p)),
                        Alt(MapVariant("NumberF64", ParseDouble(s, p)),
                            MapVariant("String", ParseString(s, p))))))

\* preceded(split, alt(..)) with split ended at p
ValueAt(s, i, p) == ValueAlt(s, i, p, ParseJsonRoot(s, p))

\* parse_json_value
ParseJsonValue(s, i) == ValueAt(s, i, Split(s, i).pos)

\* terminated(root, split), r being the result of root.
RootEnd(s, r) == IF ~r.ok THEN r ELSE Terminated(r, Split(s, r.pos))

\* parse_json_str: delimited(split, parse_json_root, split)
ParseJsonStr(s, i) ==
    Logged("str", i, RootEnd(s, ParseJsonRoot(s, Split(s, i).pos)))

(***************************************************************************)
(* JsonValue::from_str as a state machine.                                 *)
(***************************************************************************)

None == [none |-> TRUE]
EncodingError == "only support ASCII alphanumeric, does not support string contains Unicode"
ROk(v) == [ok |-> TRUE, val |-> v]
RErr(e) == [ok |-> FALSE, err |-> e]

\* nom's Display of Err<E>, up to the error value it prints.
ErrToString(kind) == IF kind = "Failure" THEN "Parsing Failure" ELSE "Parsing Error"

(***************************************************************************)
(* The inputs. A document is written as a syntax tree: <<"null">>,          *)
(* <<"bool", b>>, <<"num", literal>>, <<"str", content>>, <<"arr", items>>  *)
(* and <<"obj", pairs>> with pairs <<key, tree>>.                           *)
(***************************************************************************)
MaxLen == 12
MaxPairs == 3
MaxDepth == 3

Lit(t) == <<"num", Str(t)>>
Atoms == { <<"null">>, <<"bool", TRUE>>, <<"bool", FALSE>>, Lit(<<"1">>),
           <<"str", Str(<<"a">>)>> }
Keys == { Str(<<"a">>), Str(<<"b">>) }

\* The length of an atom's text, and of a key with its colon.
AtomLen(a) ==
    CASE a[1] = "null" -> 4
      [] a[1] = "bool" -> IF a[2] THEN 4 ELSE 5
      [] a[1] = "num" -> Len(a[2])
      [] a[1] = "str" -> Len(a[2]) + 2
KeyLen(key) == Len(key) + 3

\* A set listed element by element.
Listed(S) == { x : x \in S }

\* V[n], L[n], P[n]: the trees, the non-empty sequences of trees and the
\* non-empty sequences of pairs whose text without whitespace (commas
\* included) has exactly n characters, built for n = 1, 2, ... in turn.
ValsOf(n, L, P) ==
    { a \in Atoms : AtomLen(a) = n }
    \cup (IF n < 2 THEN {}
          ELSE IF n = 2 THEN { <<"arr", <<>>>>, <<"obj", <<>>>> }
          ELSE { <<"arr", l>> : l \in L[n - 2] } \cup { <<"obj", l>> : l \in P[n - 2] })

ListsOf(n, V, L) ==
    { <<v>> : v \in V[n] }
    \cup UNION { { <<v>> \o l : v \in V[k], l \in L[n - k - 1] } : k \in 1..(n - 2) }

PairListsOf(n, V, P) ==
    UNION { (IF n > KeyLen(key)
             THEN { << <<key, v>> >> : v \in V[n - KeyLen(key)] } ELSE {})
            \cup UNION { { << <<key, v>> >> \o l :
                             v \in V[k], l \in P[n - k - KeyLen(key) - 1] }
                         : k \in 1..(n - KeyLen(key) - 2) }
            : key \in Keys }

GrowTrees(n, V, L, P) ==
    IF n > MaxLen THEN V
    ELSE LET V1 == Append(V, Listed(ValsOf(n, L, P)))
         IN  GrowTrees(n + 1, V1, Append(L, Listed(ListsOf(n, V1, L))),
                       Append(P, Listed(PairListsOf(n, V1, P))))

TreesByLen == GrowTrees(1, <<>>, <<>>, <<>>)

IsRootTree(d) == d[1] \in {"null", "arr", "obj"}

\* The number of brackets around the innermost value of a tree.
Max(S) == CHOOSE x \in S : \A y \in S : y <= x
Depth(d) ==
    CASE d[1] = "arr" -> 1 + Max({0} \cup { Depth(d[2][k]) : k \in 1..Len(d[2]) })
      [] d[1] = "obj" -> 1 + Max({0} \cup { Depth(d[2][k][2]) : k \in 1..Len(d[2]) })
      [] OTHER -> 0

\* The documents: the root trees nested at most MaxDepth deep.
RootTrees ==
    Listed(UNION { { d \in TreesByLen[n] : IsRootTree(d) /\ Depth(d) <= MaxDepth }
                   : n \in 1..MaxLen })

\* Maps of up to MaxPairs pairs, keys repeated or not, alone and nested.
PairValues == { <<"null">>, <<"bool", TRUE>>, Lit(<<"1">>) }
PairSeqs(n) ==
    IF n = 0 THEN { <<>> }
    ELSE { Append(l, <<key, v>>) : l \in PairSeqs(n - 1), key \in Keys, v \in PairValues }
PairMaps(n) == { <<"obj", l>> : l \in PairSeqs(n) }
PairMapTrees ==
    UNION { PairMaps(n) : n \in 1..MaxPairs }
    \cup UNION { { <<"arr", <<m>>>>, <<"obj", << <<Str(<<"a">>), m>> >>>> }
                 : m \in PairMaps(2) }

\* Number literals beyond a single digit, and a longer string.
MoreAtoms == { Lit(<<"1", "2", "3">>), Lit(<<"-", "1", ".", "5", "0">>),
               Lit(<<"1", "5", "e", "-", "1">>), Lit(<<".", "5", "E", "+", "2">>),
               Lit(<<"+", "2", ".">>), <<"str", Str(<<"o", "k">>)>> }
NestedAtomTrees ==
    UNION { { <<"arr", <<a>>>>, <<"obj", << <<Str(<<"k">>), a>> >>>> }
            : a \in Atoms \cup MoreAtoms }

\* Whitespace runs.
NoWs == <<>>
Space == Str(<<" ">>)
WsRuns == { NoWs, Space, Str(<<"\n">>), Str(<<"\t", "\r">>) }

Quoted(str) == <<ChQuote>> \o str \o <<ChQuote>>

\* The text of a tree, with the run w at every place the grammar allows
\* whitespace inside it.
Render(d, w) ==
    CASE d[1] = "null" -> TNull
      [] d[1] = "bool" -> IF d[2] THEN TTrue ELSE TFalse
      [] d[1] = "num" -> d[2]
      [] d[1] = "str" -> Quoted(d[2])
      [] d[1] = "arr" ->
            <<ChLBracket>> \o w \o RenderItems(d, w, 1) \o w \o <<ChRBracket>>
      [] d[1] = "obj" ->
            <<ChLBrace>> \o w \o RenderItems(d, w, 1) \o w \o <<ChRBrace>>

\* The items (pairs) of d from index k on, separated by commas.
RenderItems(d, w, k) ==
    IF k > Len(d[2]) THEN <<>>
    ELSE (IF k > 1 THEN w \o <<ChComma>> \o w ELSE <<>>)
         \o (IF d[1] = "arr" THEN Render(d[2][k], w)
             ELSE Quoted(d[2][k][1]) \o w \o <<ChColon>> \o w
                  \o Render(d[2][k][2], w))
         \o RenderItems(d, w, k + 1)

\* The value a tree denotes: an array keeps its items in order, a map has one
\* entry per distinct key, holding the value of the key's last pair.
LastPair(pairs, key) ==
    CHOOSE k \in 1..Len(pairs) :
        pairs[k][1] = key /\ \A j \in (k + 1)..Len(pairs) : pairs[j][1] # key
Denote(d) ==
    CASE d[1] = "null" -> JNull
      [] d[1] = "bool" -> JBoolean(d[2])
      [] d[1] = "num" -> JNumberF64(ParseDouble(d[2], 1).val)
      [] d[1] = "str" -> JString(d[2])
      [] d[1] = "arr" -> JArray([k \in 1..Len(d[2]) |-> Denote(d[2][k])])
      [] d[1] = "obj" ->
            JMap([key \in { d[2][k][1] : k \in 1..Len(d[2]) } |->
                    Denote(d[2][LastPair(d[2], key)][2])])

DocText(d, w) == w \o Render(d, w) \o w
Compact(d) == Render(d, <<>>)

\* The text s with t inserted before position k, and with s[a..b] replaced by t.
InsertAt(s, k, t) == SubSeq(s, 1, k - 1) \o t \o SubSeq(s, k, Len(s))
Replace(s, a, b, t) == SubSeq(s, 1, a - 1) \o t \o SubSeq(s, b + 1, Len(s))

Case(fam, d, text) == [family |-> fam, doc |-> d, text |-> text]

\* The root trees with their texts, and those of at most n characters.
Docs == { <<d, Compact(d)>> : d \in RootTrees }
DocsWithin(n) == { c \in Docs : Len(c[2]) <= n }
Fitting(S) == { c \in S : Len(c.text) <= MaxLen }

\* Texts of the grammar.
GrammarCases ==
    UNION { { Case("grammar", c[1], DocText(c[1], w)) :
                c \in DocsWithin(MaxLen - 2 * Len(w)) } : w \in WsRuns }
    \cup { Case("grammar", d, DocText(d, w)) : d \in PairMapTrees, w \in { NoWs, Space } }
    \cup { Case("nested_atom", d, DocText(d, w)) : d \in NestedAtomTrees, w \in WsRuns }

\* A boolean, number or string as the whole document.
AtomCases ==
    { Case("atom", a, DocText(a, w)) :
        a \in (Atoms \cup MoreAtoms) \ { <<"null">> }, w \in WsRuns }

\* A root value followed by further text.
Rests == { Str(<<"x">>), Str(<<"[", "]">>), Str(<<",">>), TNull, Str(<<"}">>),
           Str(<<"\"", "a", "\"">>) }
TrailingCases ==
    UNION { UNION { { Case("trailing", c[1], DocText(c[1], w[1]) \o w[2] \o r) :
                        c \in DocsWithin(MaxLen - 2 * Len(w[1]) - Len(w[2]) - Len(r)) }
                    : w \in { <<NoWs, NoWs>>, <<NoWs, Space>>, <<Space, NoWs>> } }
            : r \in Rests }

\* A non-ASCII character before, inside or after a text, whether or not the
\* text is of the grammar.
NonAscii == { Ord("U+00E9"), Ord("U+4E2D") }
NonAsciiCases ==
    { Case("non_ascii", c[1], InsertAt(c[2], k[1] + k[2] * Len(c[2]), <<u>>)) :
        c \in DocsWithin(MaxLen - 1)
              \cup { <<a, Compact(a)>> : a \in Atoms \cup MoreAtoms },
        k \in { <<1, 0>>, <<2, 0>>, <<1, 1>> }, u \in NonAscii }

\* A quoted string (key or value) whose content is not one or more ASCII
\* letters or digits: each string of a text replaced in turn.
BadStrings == { Quoted(<<>>), Quoted(Str(<<"a", " ", "b">>)), Quoted(Str(<<"a", "?">>)),
                Quoted(Str(<<"\\", "n">>)), Quoted(Str(<<"a", "U+00E9">>)) }
\* The opening quotes of a text whose strings hold no quote: every other one.
OpeningQuotes(s) ==
    { k \in 1..Len(s) :
        /\ s[k] = ChQuote
        /\ Cardinality({ j \in 1..(k - 1) : s[j] = ChQuote }) % 2 = 0 }
ClosingQuote(s, k) ==
    CHOOSE j \in (k + 1)..Len(s) :
        s[j] = ChQuote /\ \A m \in (k + 1)..(j - 1) : s[m] # ChQuote
BadStringCases ==
    Fitting(UNION { UNION { LET t == Render(c[1], w)
                            IN  { Case("bad_string", c[1],
                                       w \o Replace(t, k, ClosingQuote(t, k), b) \o w) :
                                    k \in OpeningQuotes(t), b \in BadStrings }
                            : c \in DocsWithin(MaxLen + 1 - 2 * Len(w)) }
                    : w \in { NoWs, Space } })

\* Malformed structure: a comma before a closing bracket, a closing bracket
\* left out, the colon of a pair left out.
Closers == { ChRBracket, ChRBrace }
PlacesOf(s, chars) == { k \in 1..Len(s) : s[k] \in chars }
TrailingCommaCases ==
    UNION { UNION { { Case("trailing_comma", c[1],
                           InsertAt(c[2], k, w \o <<ChComma>> \o w)) :
                        k \in PlacesOf(c[2], Closers) }
                    : c \in DocsWithin(MaxLen - 1 - 2 * Len(w)) }
            : w \in { NoWs, Space } }
UnclosedCases ==
    UNION { { Case("unclosed", c[1], Replace(c[2], k, k, <<>>)) :
                k \in PlacesOf(c[2], Closers) }
            : c \in Docs }
NoColonCases ==
    UNION { UNION { { Case("no_colon", c[1], Replace(c[2], k, k, w)) :
                        k \in PlacesOf(c[2], { ChColon }) }
                    : c \in Docs }
            : w \in { NoWs, Space } }
MalformedFamilies == { "trailing_comma", "unclosed", "no_colon" }

\* null, true or false immediately followed by a letter or a digit.
Keywords == { TNull, TTrue, TFalse }
KeywordEnds(s) ==
    { k \in 1..Len(s) : \E t \in Keywords :
        k >= Len(t) /\ SubSeq(s, k - Len(t) + 1, k) = t }
KeywordCases ==
    UNION { { Case("keyword", c[1], InsertAt(c[2], k + 1, <<u>>)) :
                k \in KeywordEnds(c[2]), u \in { Ord("a"), Ord("1") } }
            : c \in DocsWithin(MaxLen - 1) }

\* The inputs of the repository's own test, test_json_value, with the
\* verdict each asserts.
TestCases ==
    { Case("test", TRUE, Str(<<"{", "\"", "k", "e", "y", "\"", ":", " ", "\"", "v", "a", "l", "u", "e", "\"", "}">>)),
      Case("test", TRUE, Str(<<"[", "1", ",", " ", "\"", "t", "w", "o", "\"", "]">>)),
      Case("test", TRUE, Str(<<"n", "u", "l", "l">>)),
      Case("test", TRUE, Str(<<"{", "\"", "k", "e", "y", "\"", ":", " ", "n", "u", "l", "l", "}">>)),
      Case("test", FALSE, Str(<<"{", "\"", "k", "e", "y", "\"", ":", " ", "\"", "?", "?", "?", "\"", "}">>)),
      Case("test", FALSE, Str(<<"{", "\"", "k", "e", "y", "\"", ":", " ", "\"", "U+4E2D", "U+4E2D", "\"", "}">>)) }

Cases ==
    GrammarCases \cup AtomCases \cup TrailingCases \cup NonAsciiCases
    \cup BadStringCases \cup TrailingCommaCases \cup UnclosedCases
    \cup NoColonCases \cup KeywordCases \cup TestCases

Init ==
    /\ \E c \in Cases : input = c.text /\ family = c.family /\ doc = c.doc
    /\ pc = "call"
    /\ ires = None
    /\ result = None

\* s.chars().all(|c| c.is_ascii())
AllAscii(s) == \A k \in 1..Len(s) : IsAscii(s[k])

\* match parse_json_str(s) { Ok(val) => Ok(val.1), Err(e) => Err(e.to_string()) }
MatchResult(r) == IF r.ok THEN ROk(r.val) ELSE RErr(ErrToString(r.kind))

\* if !s.chars().all(|c| c.is_ascii()) { return Err(...) }
Validate ==
    /\ pc = "call"
    /\ IF AllAscii(input)
       THEN pc' = "parse" /\ result' = result
       ELSE pc' = "done" /\ result' = RErr(EncodingError)
    /\ UNCHANGED <<input, ires, family, doc>>

\* parse_json_str::<(&str, ErrorKind)>(s)
RunParser ==
    /\ pc = "parse"
    /\ ires' = ParseJsonStr(input, 1)
    /\ pc' = "match"
    /\ UNCHANGED <<input, result, family, doc>>

\* Ok(val) => Ok(val.1), Err(e) => Err(e.to_string())
Return ==
    /\ pc = "match"
    /\ result' = MatchResult(ires)
    /\ pc' = "done"
    /\ UNCHANGED <<input, ires, family, doc>>

Next == Validate \/ RunParser \/ Return

Spec == Init /\ [][Next]_vars

\* JsonValue::from_str as a function of its argument: what the three steps
\* above return for the text s.
FromStr(s) ==
    IF AllAscii(s) THEN MatchResult(ParseJsonStr(s, 1)) ELSE RErr(EncodingError)

Done == pc = "done"
Accepted == Done /\ result.ok
Rejected == Done /\ ~result.ok

\* The verdicts test_json_value asserts.
TestVerdicts == Done /\ family = "test" => result.ok = doc

(***************************************************************************)
(* The claims.                                                             *)
(***************************************************************************)

\* C1: when a successful root match (map, array or null, with optional
\* whitespace around it) is followed by further text that starts with a
\* non-whitespace character, from_str returns Err and never Ok.
C1_TrailingTextRejected == Done /\ family = "trailing" => ~result.ok

\* The inputs with a character beyond U+007F.
HasNonAscii(s) == \E k \in 1..Len(s) : s[k] \in NonAscii

\* C2: for an input with at least one non-ASCII character, from_str returns
\* the fixed encoding error and parse_json_str is never run, whatever the
\* rest of the input is.
C2_NonAsciiEncodingError ==
    HasNonAscii(input) =>
        /\ ires = None
        /\ pc \in {"call", "done"}
        /\ Done => result = RErr(EncodingError)

\* A non-ASCII character inside a text that would otherwise parse.
C2_Witness ==
    /\ Done /\ family = "non_ascii" /\ result = RErr(EncodingError)
    /\ doc[1] = "obj" /\ Len(doc[2]) >= 1
    /\ IsAscii(input[1]) /\ IsAscii(input[Len(input)])

RootKinds == { "Null", "Array", "Map" }

\* C3: a document that is only a boolean, a number or a quoted string makes
\* from_str return Err, the same atom as an array element or a map value
\* makes it return Ok with that atom at the nested position, and every Ok
\* result has a root that is Null, Array or Map.
C3_RootAtomAsymmetry ==
    Done =>
        /\ family = "atom" => ~result.ok
        /\ family = "nested_atom" => result.ok /\ result.val = Denote(doc)
        /\ result.ok => result.val[1] \in RootKinds

\* A number alone, with whitespace around it, is rejected by the grammar.
C3_Witness ==
    /\ Done /\ family = "atom" /\ doc[1] = "num" /\ Len(input) > Len(doc[2])
    /\ result = RErr("Parsing Error")

\* C4: an input in which a quoted string, a key or a value at any depth, has
\* content that is not one or more ASCII letters or digits makes from_str
\* return Err.
C4_BadStringRejected == Done /\ family = "bad_string" => ~result.ok

\* An ASCII string of disallowed content, nested in an array in a document.
C4_Witness ==
    /\ Done /\ family = "bad_string" /\ result = RErr("Parsing Error")
    /\ doc[1] = "arr" /\ Len(doc[2]) >= 1 /\ doc[2][1][1] \in {"arr", "obj"}

RootKindOf(d) ==
    CASE d[1] = "null" -> "Null" [] d[1] = "arr" -> "Array" [] d[1] = "obj" -> "Map"

\* C5: for every text of the grammar, from_str returns Ok and the root of
\* the tree is Null, Array or Map as the outermost form of the text is.
C5_GrammarAccepted ==
    Done /\ family \in {"grammar", "nested_atom"} =>
        result.ok /\ result.val[1] = RootKindOf(doc)

\* An empty array with whitespace inside and around it.
C5_Witness ==
    /\ Accepted /\ family = "grammar" /\ doc = <<"arr", <<>>>>
    /\ Len(input) > 2 /\ result.val = JArray(<<>>)

\* C6: an input whose array or map has a comma with no element after it,
\* lacks its closing bracket, or has a pair without its colon makes
\* from_str return Err.
C6_MalformedRejected == Done /\ family \in MalformedFamilies => ~result.ok

\* A comma after the last element of a non-empty array.
C6_Witness ==
    /\ Rejected /\ family = "trailing_comma" /\ doc[1] = "arr" /\ Len(doc[2]) >= 2
    /\ \E k \in 1..Len(ires.log) : ires.log[k].ev = "iter"

\* C7: the mapping built from a map text has exactly one entry per distinct
\* key, and each key maps to the value of its last occurrence in the text.
C7_LastWriteWins ==
    Accepted /\ family = "grammar" => result.val = Denote(doc)

\* A map text whose two pairs have the same key and different values.
C7_Witness ==
    /\ Accepted /\ family = "grammar" /\ doc[1] = "obj" /\ Len(doc[2]) = 2
    /\ doc[2][1][1] = doc[2][2][1] /\ doc[2][1][2] # doc[2][2][2]
    /\ Cardinality(DOMAIN result.val[2]) = 1
    /\ result.val[2][doc[2][1][1]] = Denote(doc[2][2][2])

\* C8: an input in which null, true or false is immediately followed by a
\* letter or a digit, at the top level or nested, makes from_str return Err.
C8_KeywordPrefixRejected == Done /\ family = "keyword" => ~result.ok

\* The places of a text where whitespace may be inserted: its two ends, and
\* beside a bracket, a comma, a colon or a whitespace character.
Punctuation ==
    { ChLBracket, ChRBracket, ChLBrace, ChRBrace, ChComma, ChColon } \cup SplitChars
Gaps(s) ==
    { k \in 1..(Len(s) + 1) :
        k = 1 \/ k = Len(s) + 1 \/ s[k - 1] \in Punctuation \/ s[k] \in Punctuation }
InQuotes(s, k) == Cardinality(PlacesOf(SubSeq(s, 1, k - 1), { ChQuote })) % 2 = 1
\* The inserted run holds each of the four whitespace characters.
InsertRuns == { Str(<<" ", "\t", "\r", "\n">>) }

Count(log, P(_)) == Cardinality({ k \in 1..Len(log) : P(log[k]) })
IsValueRule(e) == e.ev = "rule" /\ e.rule = "value"
IsCall(e) == e.ev = "call"
IsIter(e) == e.ev = "iter"

\* C10: a run of the parser never ends a successful rule before the position
\* it started at, every completed round of a list loop and every successful
\* rule consumes at least one character, every call of the value rule from
\* an array or map starts after the opening bracket of its caller, and the
\* number of rule applications is bounded by the length of the input: the
\* value rule is applied at most once per bracket, comma and colon.
C10_Terminates ==
    /\ pc \in {"match", "done"} /\ AllAscii(input) => ires # None
    /\ Done => result # None
    /\ ires # None =>
        /\ \A k \in 1..Len(ires.log) :
            LET e == ires.log[k]
            IN  /\ e.at >= 1 /\ e.to <= Len(input) + 1
                /\ e.ok /\ e.ev = "rule" => e.to > e.at
                /\ e.ev \in {"iter", "call"} => e.to > e.at
        /\ Count(ires.log, IsValueRule)
              <= Cardinality(PlacesOf(input, { ChLBracket, ChComma, ChColon }))
        /\ Len(ires.log) <= 5 * Len(input) + 4

\* A run with a nested array and a completed round of a list loop.
C10_Witness ==
    /\ Accepted /\ Count(ires.log, IsIter) >= 1 /\ Count(ires.log, IsCall) >= 3
    /\ doc[1] = "arr" /\ Len(doc[2]) >= 1 /\ doc[2][1][1] = "arr"

====
